---------------------------- MODULE Spec2Model ----------------------------
(***************************************************************************)
(* SurgiPulse: staff surgery counts against targets.                       *)
(*                                                                         *)
(* Two variants of the program are modelled:                               *)
(*   - src/app.py, the Streamlit application: tables staff, surgery and    *)
(*     target, one action per script run (seed_default_staff followed by   *)
(*     the page chosen in the sidebar).  Specification Spec.               *)
(*   - src/db.py + src/reports.py, the reporting variant: tables users,    *)
(*     surgeries and targets and the query get_trend_data.                 *)
(*     Specification SpecReports.                                          *)
(*                                                                         *)
(* A table is the sequence of its rows in insertion order; the primary key *)
(* of a row is its position (autoincrement, no row is ever deleted).  A    *)
(* date is kept as year and month: no operation reads the day or the time, *)
(* and the columns created_at / assigned_at are never read at all.         *)
(***************************************************************************)
EXTENDS Integers, Sequences, FiniteSets, TLC

VARIABLES staff, surgery, target,      \* app.py: the three tables
          today,                       \* datetime.today(), as [y, m]
          view,                        \* what the last script run rendered
          steps,                       \* writes and clock ticks so far
          users, surgeries, targets,   \* db.py: the three tables
          report                       \* reports.py: last get_trend_data result

vars == <<staff, surgery, target, today, view, steps,
          users, surgeries, targets, report>>

appVars == <<staff, surgery, target, today, view>>
dbVars  == <<users, surgeries, targets, report>>

(***************************************************************************)
(* Bounds of the model.                                                    *)
(***************************************************************************)
MaxSteps == 2          \* writes (and clock ticks) in one behaviour
MaxTargetInput == 2    \* largest value typed into "Target Surgeries"
\* random.randint(10, 50), the number of surgeries generated per staff, is
\* scaled down to GenLow..GenHigh: a generated table of 140 to 700 rows per
\* press is beyond what the model checker explores.
GenLow == 1
GenHigh == 2
MaxRows == 4           \* rows in the tables of db.py, all three together
MaxTargetCases == 2    \* largest target_cases of a row of targets

\* The operator's picks in the "Select Staff" box, of the names on offer.
OperatorPicks == {"Josephine", "Carol"}
\* The dates the operator enters in "Surgery Date": before the trend window,
\* inside it, and after today.
DateChoices == {[y |-> 2024, m |-> 12], [y |-> 2026, m |-> 6]}
\* The months the operator picks in the "Month" box, of the twelve on offer.
MonthPicks == {"January", "September"}

(***************************************************************************)
(* Sequence helpers.                                                       *)
(***************************************************************************)
Range(s) == {s[i] : i \in DOMAIN s}

RECURSIVE SumSeq(_)
SumSeq(s) == IF s = <<>> THEN 0 ELSE Head(s) + SumSeq(Tail(s))

(***************************************************************************)
(* Dates and month strings.                                                *)
(***************************************************************************)
Pad2(n) == IF n < 10 THEN "0" \o ToString(n) ELSE ToString(n)

\* strftime("%Y-%m"), and Period("M").astype(str)
MonthStr(d) == ToString(d.y) \o "-" \o Pad2(d.m)

TrendStart == [y |-> 2025, m |-> 1]

\* months from 2025-01 to d (negative before 2025-01)
MonthOrdinal(d) == (d.y - TrendStart.y) * 12 + (d.m - TrendStart.m)

OrdinalMonth(i) == [y |-> TrendStart.y + (i \div 12), m |-> (i % 12) + 1]

\* pd.period_range("2025-01", end).astype(str): empty when end is earlier
period_range(end) ==
    IF MonthOrdinal(end) < 0 THEN <<>>
    ELSE [i \in 1..(MonthOrdinal(end) + 1) |-> MonthStr(OrdinalMonth(i - 1))]

NextMonth(d) == IF d.m = 12 THEN [y |-> d.y + 1, m |-> 1]
                ELSE [y |-> d.y, m |-> d.m + 1]

(***************************************************************************)
(* app.py: seeding.                                                        *)
(***************************************************************************)
SeedNames == <<"Josephine", "Carol", "Jacob", "Naomi", "Charity", "Kevin",
               "Miriam", "Brian", "James", "Faith", "Geoffrey", "Spencer",
               "Evans", "Eric">>
SeedRoles == <<"Nurse", "Surgeon", "Technician", "Nurse", "Surgeon",
               "Assistant", "Surgeon", "Technician", "Surgeon", "Nurse",
               "Technician", "Surgeon", "Nurse", "Surgeon">>
SeedHospitals == <<"Moi Teaching & Referral Hospital",
                   "Aga Khan University Hospital",
                   "Meru Teaching & Referral", "Coast General Hospital",
                   "Kenyatta National Hospital",
                   "St. Luke's Orthopedic Hospital", "Meru Level 5 Hospital",
                   "Mombasa Hospital", "Kijabe Mission Hospital",
                   "Reale Hospital", "Mater Hospital",
                   "Pandya Memorial Hospital", "Meru General Hospital",
                   "Moi Teaching & Referral Hospital">>
SeedRegions == <<"Eldoret", "Nairobi/Kijabe", "Meru", "Mombasa",
                 "Nairobi/Kijabe", "Eldoret", "Meru", "Mombasa",
                 "Nairobi/Kijabe", "Eldoret", "Nairobi/Kijabe", "Mombasa",
                 "Meru", "Eldoret">>

staff_list == [i \in 1..Len(SeedNames) |->
                 [name |-> SeedNames[i], role |-> SeedRoles[i],
                  hospital |-> SeedHospitals[i], region |-> SeedRegions[i]]]

\* session.add_all(rows); session.commit(): ids continue the table's
add_all(table, rows) ==
    table \o [i \in 1..Len(rows) |->
                [id |-> Len(table) + i] @@ rows[i]]

\* a faulty variant: the sample staff are inserted on every start-up
seed_always(st) == add_all(st, staff_list)

seed_default_staff(st) == IF st = <<>> THEN add_all(st, staff_list) ELSE st


(***************************************************************************)
(* app.py: helpers of the pages.                                           *)
(***************************************************************************)
\* a faulty variant: the insert overwrites the last row of the table
add_overwrite(table, row) ==
    IF table = <<>> THEN <<[id |-> 1] @@ row>>
    ELSE [table EXCEPT ![Len(table)] = [id |-> Len(table)] @@ row]

\* session.add(row); session.commit()
add(table, row) == Append(table, [id |-> Len(table) + 1] @@ row)

\* the relationship Surgery.staff: the Staff row of the foreign key, or None
RelStaff(st, sid) ==
    IF \E i \in DOMAIN st : st[i].id = sid
    THEN st[CHOOSE i \in DOMAIN st : st[i].id = sid]
    ELSE [id |-> 0, name |-> "None"]

\* a faulty variant: the trend without the reindex over the window
TrendNoReindex(sg, now) ==
    LET idx == {MonthOrdinal(sg[i].date) : i \in DOMAIN sg}
        RECURSIVE build(_)
        build(S) == IF S = {} THEN <<>>
                    ELSE LET lo == CHOOSE x \in S : \A z \in S : x <= z
                         IN <<[Month |-> MonthStr(OrdinalMonth(lo)),
                               Total |-> Cardinality({i \in DOMAIN sg :
                                           MonthOrdinal(sg[i].date) = lo})]>>
                            \o build(S \ {lo})
    IN  build(idx)

\* df.groupby("Month").size() ... reindex(all_months, fill_value=0)
MonthlyTrend(sg, now) ==
    LET Month(i)   == MonthStr(sg[i].date)
        present    == {Month(i) : i \in DOMAIN sg}
        size(mo)   == Cardinality({i \in DOMAIN sg : Month(i) = mo})
        all_months == period_range(now)
    IN  [j \in DOMAIN all_months |->
           [Month |-> all_months[j],
            Total |-> IF all_months[j] \in present
                      THEN size(all_months[j]) ELSE 0]]

\* alt.Chart(df) ... x="Region", y="count()"
RegionCount(sg) ==
    [r \in {sg[i].region : i \in DOMAIN sg} |->
        Cardinality({i \in DOMAIN sg : sg[i].region = r})]

DashboardView(st, sg, now) ==
    [page |-> "Dashboard",
     total_surgeries |-> Len(sg),
     total_staff |-> Len(st),
     charts |-> sg # <<>>,
     by_region |-> IF sg # <<>> THEN RegionCount(sg) ELSE <<>>,
     trend |-> IF sg # <<>> THEN MonthlyTrend(sg, now) ELSE <<>>,
     asof |-> now]

\* the options of st.selectbox("Month", [...])
MonthNames == <<"January", "February", "March", "April", "May", "June",
                "July", "August", "September", "October", "November",
                "December">>

\* a faulty variant: the number input accepts 0
number_input_from_zero == 0..MaxTargetInput

\* the values of st.number_input("Target Surgeries", min_value=1, step=1)
number_input == 1..MaxTargetInput

\* a faulty variant: the foreign key is taken from the position in the select box
\* (counted from 0) instead of the row's id
staff_dict_by_position(st) ==
    [n \in {st[i].name : i \in DOMAIN st} |->
        LET i == CHOOSE i \in DOMAIN st :
                   /\ st[i].name = n
                   /\ \A j \in DOMAIN st : st[j].name = n => j <= i
        IN  [st[i] EXCEPT !.id = i - 1]]

\* {s.name: s for s in staff_list}: a later row replaces an earlier one of
\* the same name
staff_dict(st) ==
    [n \in {st[i].name : i \in DOMAIN st} |->
        st[CHOOSE i \in DOMAIN st :
              /\ st[i].name = n
              /\ \A j \in DOMAIN st : st[j].name = n => j <= i]]

\* the rows of the leaderboard, one per Staff row, in table order
LeaderboardRows(st, sg, tg) ==
    [i \in DOMAIN st |->
       LET n_surgeries  == Cardinality({k \in DOMAIN sg :
                                          sg[k].staff_id = st[i].id})
           total_target == SumSeq([k \in DOMAIN tg |->
                                     IF tg[k].staff_id = st[i].id
                                     THEN tg[k].target_surgeries ELSE 0])
       IN  [Staff |-> st[i].name,
            Surgeries |-> n_surgeries,
            Target |-> total_target,
            Progress |-> IF total_target # 0
                         THEN ToString(n_surgeries) \o "/"
                                \o ToString(total_target)
                         ELSE "No target"]]

\* The orders in which the sort may leave rows of equal key: kind is left at
\* its default "quicksort", which is not a stable sort.
TieOrders == {"insertion", "reversed"}

\* r placed into sorted (descending by Surgeries) after the rows of a larger
\* key, and after ("insertion") or before ("reversed") the rows of its own key
InsertRow(sorted, r, tie) ==
    LET behind == {k \in DOMAIN sorted :
                     IF tie = "insertion"
                     THEN sorted[k].Surgeries < r.Surgeries
                     ELSE sorted[k].Surgeries <= r.Surgeries}
        at == Len(sorted) - Cardinality(behind)
    IN  SubSeq(sorted, 1, at) \o <<r>> \o SubSeq(sorted, at + 1, Len(sorted))

RECURSIVE SortFrom(_, _, _, _)
SortFrom(rows, i, sorted, tie) ==
    IF i > Len(rows) THEN sorted
    ELSE SortFrom(rows, i + 1, InsertRow(sorted, rows[i], tie), tie)

\* df.sort_values(by="Surgeries", ascending=False): descending by Surgeries,
\* rows of equal key in the order tie
sort_values(rows, tie) == SortFrom(rows, 1, <<>>, tie)

\* the rows generate_random_surgeries adds: for each Staff row in table
\* order, count[i] rows of that staff, dated date
RECURSIVE GeneratedRows(_, _, _, _)
GeneratedRows(st, i, count, date) ==
    IF i > Len(st) THEN <<>>
    ELSE [k \in 1..count[i] |->
            [staff_id |-> st[i].id, hospital |-> st[i].hospital,
             region |-> st[i].region, date |-> date]]
         \o GeneratedRows(st, i + 1, count, date)

(***************************************************************************)
(* app.py: the state after the module-level set-up of the engine, and one  *)
(* action per script run.  Every run calls seed_default_staff() first.     *)
(***************************************************************************)
InitApp ==
    /\ staff = <<>>
    /\ surgery = <<>>
    /\ target = <<>>
    /\ today = [y |-> 2025, m |-> 12]
    /\ view = [page |-> "none"]
    /\ steps = 0

InitDb ==
    /\ users = <<>>
    /\ surgeries = <<>>
    /\ targets = <<>>
    /\ report = [months |-> {}, rows |-> {}]

Init == InitApp /\ InitDb

\* page == "Dashboard"
Dashboard ==
    /\ staff' = seed_default_staff(staff)
    /\ view' = DashboardView(staff', surgery, today)
    /\ UNCHANGED <<surgery, target, today, steps>>
    /\ UNCHANGED dbVars

\* page == "Log Surgery": the form, and the insert when the button is pressed
LogSurgery ==
    /\ staff' = seed_default_staff(staff)
    /\ \E pressed \in BOOLEAN :
         IF pressed
         THEN /\ steps < MaxSteps
              /\ \E staff_name \in (DOMAIN staff_dict(staff')) \cap OperatorPicks,
                    date \in DateChoices \cup {today} :
                   LET s == staff_dict(staff')[staff_name] IN
                   /\ surgery' = add(surgery, [staff_id |-> s.id,
                                               hospital |-> s.hospital,
                                               region |-> s.region,
                                               date |-> date])
                   /\ view' = [page |-> "Log Surgery", pressed |-> TRUE,
                               success |-> <<staff_name, date>>]
              /\ steps' = steps + 1
         ELSE /\ view' = [page |-> "Log Surgery", pressed |-> FALSE]
              /\ UNCHANGED <<surgery, steps>>
    /\ UNCHANGED <<target, today>>
    /\ UNCHANGED dbVars

\* page == "Assign Targets": the form, and the insert when the button is
\* pressed; st.number_input(min_value=1, step=1) yields an integer >= 1
AssignTargets ==
    /\ staff' = seed_default_staff(staff)
    /\ \E pressed \in BOOLEAN :
         IF pressed
         THEN /\ steps < MaxSteps
              /\ \E staff_name \in (DOMAIN staff_dict(staff')) \cap OperatorPicks,
                    month \in Range(MonthNames) \cap MonthPicks,
                    n \in number_input :
                   LET s == staff_dict(staff')[staff_name] IN
                   /\ target' = add(target, [staff_id |-> s.id,
                                             month |-> month,
                                             target_surgeries |-> n])
                   /\ view' = [page |-> "Assign Targets", pressed |-> TRUE,
                               success |-> <<n, staff_name, month>>]
              /\ steps' = steps + 1
         ELSE /\ view' = [page |-> "Assign Targets", pressed |-> FALSE]
              /\ UNCHANGED <<target, steps>>
    /\ UNCHANGED <<surgery, today>>
    /\ UNCHANGED dbVars

\* page == "Reports"
Reports ==
    /\ staff' = seed_default_staff(staff)
    /\ view' = [page |-> "Reports",
                rows |-> [i \in DOMAIN surgery |->
                            [Staff |-> RelStaff(staff', surgery[i].staff_id).name,
                             Hospital |-> surgery[i].hospital,
                             Region |-> surgery[i].region,
                             Date |-> surgery[i].date]]]
    /\ UNCHANGED <<surgery, target, today, steps>>
    /\ UNCHANGED dbVars

\* page == "Leaderboard"
Leaderboard ==
    /\ staff' = seed_default_staff(staff)
    /\ \E leaderboard \in {LeaderboardRows(staff', surgery, target)},
          tie \in TieOrders :
         view' = [page |-> "Leaderboard",
                  rows |-> sort_values(leaderboard, tie)]
    /\ UNCHANGED <<surgery, target, today, steps>>
    /\ UNCHANGED dbVars

\* page == "Generate Test Data": generate_random_surgeries() when the button
\* is pressed, then st.rerun() shows the page again
GenerateTestData ==
    /\ staff' = seed_default_staff(staff)
    /\ \E pressed \in BOOLEAN :
         IF pressed
         THEN /\ steps < MaxSteps
              /\ \E num_surgeries \in {GenLow, GenHigh},
                    random_date \in {TrendStart, today} :
                   surgery' = add_all(surgery,
                                  GeneratedRows(staff', 1,
                                      [i \in DOMAIN staff' |->
                                         IF i % 2 = 1 THEN num_surgeries
                                         ELSE GenLow],
                                      random_date))
              /\ steps' = steps + 1
         ELSE UNCHANGED <<surgery, steps>>
    /\ view' = [page |-> "Generate Test Data"]
    /\ UNCHANGED <<target, today>>
    /\ UNCHANGED dbVars

\* the calendar moves on to the next month between two runs
Tick ==
    /\ steps < MaxSteps
    /\ today' = NextMonth(today)
    /\ steps' = steps + 1
    /\ UNCHANGED <<staff, surgery, target, view>>
    /\ UNCHANGED dbVars

Next ==
    \/ Dashboard
    \/ LogSurgery
    \/ AssignTargets
    \/ Reports
    \/ Leaderboard
    \/ GenerateTestData
    \/ Tick

Spec == Init /\ [][Next]_vars

(***************************************************************************)
(* db.py + reports.py.  No module of the repository writes these tables:   *)
(* the rows are whatever the declarations of db.py admit, a foreign key    *)
(* naming a row of users.                                                  *)
(***************************************************************************)
Usernames == {"Carol", "Dave"}
SurgeryTypes == {"trauma"}
CaseTypes == {"all", "trauma"}
SurgeryDates == {[y |-> 2025, m |-> 8], [y |-> 2025, m |-> 9]}
Periods == {"2025-09"}
\* the lists of months get_trend_data is called with
MonthLists == {{"2025-09"}, {"2025-08", "2025-09"}}

DbRows == Len(users) + Len(surgeries) + Len(targets)

\* round(1) of num / den * 100, in tenths of a percent: the nearest tenth,
\* a tie going to the even one (den > 0, num >= 0)
RoundTenths(num, den) ==
    LET q == (num * 1000) \div den
        r == (num * 1000) % den
    IN  IF 2 * r < den THEN q
        ELSE IF 2 * r > den THEN q + 1
        ELSE IF q % 2 = 0 THEN q ELSE q + 1

\* (df["Completed Cases"] / df["Target Cases"] * 100).round(1): a division
\* by zero does not raise in pandas, it yields inf, or NaN for 0 / 0
ProgressPct(completed, target_cases) ==
    IF target_cases = 0
    THEN [kind |-> IF completed = 0 THEN "nan" ELSE "inf", tenths |-> 0]
    ELSE [kind |-> "finite", tenths |-> RoundTenths(completed, target_cases)]

\* the rows of User JOIN Target LEFT OUTER JOIN Surgery, filtered on the
\* period: <<user, target, surgery>> as positions, surgery 0 for NULL
JoinedRows(months) ==
    LET ut == {<<u, t>> \in (DOMAIN users) \X (DOMAIN targets) :
                 /\ users[u].id = targets[t].staff_id
                 /\ targets[t].period \in months}
        of(u) == {x \in DOMAIN surgeries : surgeries[x].staff_id = users[u].id}
    IN  UNION {IF of(p[1]) = {} THEN {<<p[1], p[2], 0>>}
               ELSE {<<p[1], p[2], x>> : x \in of(p[1])} : p \in ut}

GroupKey(j) == <<users[j[1]].username, targets[j[2]].period,
                 targets[j[2]].case_type, targets[j[2]].target_cases>>

\* get_trend_data(months): the data frame, as the set of its rows
get_trend_data(months) ==
    LET joined == JoinedRows(months)
        keys   == {GroupKey(j) : j \in joined}
        completed_cases(k) ==
            Cardinality({j \in joined : GroupKey(j) = k /\ j[3] # 0})
    IN  {[Staff |-> k[1], Period |-> k[2], CaseType |-> k[3],
          TargetCases |-> k[4],
          CompletedCases |-> completed_cases(k),
          Progress |-> ProgressPct(completed_cases(k), k[4])] : k \in keys}

\* a row of users
AddUser ==
    /\ DbRows < MaxRows
    /\ \E username \in Usernames :
         users' = add(users, [username |-> username, role |-> "staff"])
    /\ UNCHANGED <<surgeries, targets, report>>
    /\ UNCHANGED <<appVars, steps>>

\* a row of surgeries
AddSurgery ==
    /\ DbRows < MaxRows
    /\ \E u \in DOMAIN users, surgery_type \in SurgeryTypes,
          date \in SurgeryDates :
         surgeries' = add(surgeries, [staff_id |-> users[u].id,
                                      surgery_type |-> surgery_type,
                                      date |-> date])
    /\ UNCHANGED <<users, targets, report>>
    /\ UNCHANGED <<appVars, steps>>

\* a row of targets
AddTarget ==
    /\ DbRows < MaxRows
    /\ \E u \in DOMAIN users, case_type \in CaseTypes,
          target_cases \in 0..MaxTargetCases, period \in Periods :
         targets' = add(targets, [staff_id |-> users[u].id,
                                  case_type |-> case_type,
                                  target_cases |-> target_cases,
                                  period |-> period])
    /\ UNCHANGED <<users, surgeries, report>>
    /\ UNCHANGED <<appVars, steps>>

\* a call of get_trend_data
GetTrendData ==
    /\ \E months \in MonthLists :
         report' = [months |-> months, rows |-> get_trend_data(months)]
    /\ UNCHANGED <<users, surgeries, targets>>
    /\ UNCHANGED <<appVars, steps>>

NextReports ==
    \/ AddUser
    \/ AddSurgery
    \/ AddTarget
    \/ GetTrendData

SpecReports == Init /\ [][NextReports]_vars

(***************************************************************************)
(* Properties.                                                             *)
(***************************************************************************)
IsPrefix(a, b) == Len(a) <= Len(b) /\ \A i \in DOMAIN a : a[i] = b[i]

\* a month string of the form YYYY-MM, such as "2025-09"
IsPeriod(str) ==
    /\ Len(str) = 7
    /\ \E y \in 2000..2099, mo \in 1..12 : str = MonthStr([y |-> y, m |-> mo])

\* the step is a script run (the clock does not move during a run)
ScriptRun == today' = today

ReadOnlyPages == {"Dashboard", "Reports", "Leaderboard"}

-----------------------------------------------------------------------------
\* The surgeries of the staff of target row t dated within t's period.
MatchingSurgeries(t) ==
    {x \in DOMAIN surgeries :
        /\ surgeries[x].staff_id = targets[t].staff_id
        /\ MonthStr(surgeries[x].date) = targets[t].period}

\* The rows of a report rep that are about target row t.
RowsOfTarget(rep, t) ==
    {r \in rep.rows :
        /\ \E u \in DOMAIN users : /\ users[u].id = targets[t].staff_id
                                   /\ users[u].username = r.Staff
        /\ r.Period = targets[t].period
        /\ r.CaseType = targets[t].case_type
        /\ r.TargetCases = targets[t].target_cases}

\* a call of get_trend_data returns in this step (the tables are unchanged)
Reported == report' # report

\* C1: whenever a target with target_cases > 0 has exactly target_cases
\* matching surgeries (same staff, dated within the target's period), whatever
\* was inserted before, get_trend_data reports Progress % = 100.0 for it.
C1_FullTargetIsHundred ==
    [][Reported =>
         \A t \in DOMAIN targets :
            ( /\ targets[t].period \in report'.months
              /\ targets[t].target_cases > 0
              /\ Cardinality(MatchingSurgeries(t)) = targets[t].target_cases )
            => /\ RowsOfTarget(report', t) # {}
               /\ \A r \in RowsOfTarget(report', t) :
                     r.Progress = [kind |-> "finite", tenths |-> 1000]]_vars

\* The total target assigned to the users called name.
TotalTarget(months, name) ==
    SumSeq([t \in DOMAIN targets |->
              IF /\ targets[t].period \in months
                 /\ \E u \in DOMAIN users : /\ users[u].id = targets[t].staff_id
                                            /\ users[u].username = name
              THEN targets[t].target_cases ELSE 0])

\* C2: the progress reported for a staff member whose assigned targets sum
\* to 0 is 0, whatever number of surgeries was logged: the division by the
\* target is guarded.
C2_ZeroTargetIsZero ==
    [][Reported =>
         \A r \in report'.rows :
            TotalTarget(report'.months, r.Staff) = 0
            => r.Progress = [kind |-> "finite", tenths |-> 0]]_vars

\* C7: for every target of N > 0 cases, get_trend_data reports achieved = k,
\* the number of that staff's surgeries dated within the target's period,
\* total target = N, and progress = round(k / N * 100, 1).
C7_AchievedCountsThePeriod ==
    [][Reported =>
         \A t \in DOMAIN targets :
            ( /\ targets[t].period \in report'.months
              /\ targets[t].target_cases > 0 )
            => /\ RowsOfTarget(report', t) # {}
               /\ \A r \in RowsOfTarget(report', t) :
                     /\ r.CompletedCases = Cardinality(MatchingSurgeries(t))
                     /\ r.TargetCases = targets[t].target_cases
                     /\ r.Progress =
                          [kind |-> "finite",
                           tenths |->
                             RoundTenths(Cardinality(MatchingSurgeries(t)),
                                         targets[t].target_cases)]]_vars

-----------------------------------------------------------------------------
\* C4, as claimed: a Target row is appended only for a count > 0 and a month
\* that is a period such as "2025-09"; any other input appends nothing.
C4_OnlyPeriodsAreStored ==
    [][target' # target =>
          /\ Len(target') = Len(target) + 1
          /\ IsPrefix(target, target')
          /\ target'[Len(target')].target_surgeries > 0
          /\ IsPeriod(target'[Len(target')].month)]_vars

\* C4, amended: the form yields only a count >= 1 and one of the twelve month
\* names; every press of "Assign Target" appends exactly one Target row, of
\* the chosen staff, count and month, and the table changes in no other way.
C4_AssignAppendsOneRow ==
    [][ /\ target' # target =>
              /\ Len(target') = Len(target) + 1
              /\ IsPrefix(target, target')
              /\ target'[Len(target')].target_surgeries >= 1
              /\ target'[Len(target')].month \in Range(MonthNames)
              /\ view'.page = "Assign Targets" /\ view'.pressed
        /\ (ScriptRun /\ view'.page = "Assign Targets" /\ view'.pressed) =>
              /\ Len(target') = Len(target) + 1
              /\ LET new == target'[Len(target')] IN
                 /\ new.target_surgeries = view'.success[1]
                 /\ new.month = view'.success[3]
                 /\ \E i \in DOMAIN staff' : /\ staff'[i].id = new.staff_id
                                             /\ staff'[i].name = view'.success[2]
      ]_vars

\* C4 witness: a target has been assigned.
C4_Witness ==
    /\ view.page = "Assign Targets" /\ view.pressed
    /\ Len(target) >= 1
    /\ target[Len(target)].month = "September"

-----------------------------------------------------------------------------
\* the position of the Staff row called name
StaffPos(name) == CHOOSE i \in DOMAIN staff : staff[i].name = name

\* C5: the leaderboard lists every staff member exactly once, by completed
\* surgeries descending, staff of equal counts in Staff insertion order.
C5_StableLeaderboard ==
    view.page = "Leaderboard" =>
        /\ Len(view.rows) = Len(staff)
        /\ \A i \in DOMAIN staff :
              Cardinality({p \in DOMAIN view.rows :
                             view.rows[p].Staff = staff[i].name}) = 1
        /\ \A p, q \in DOMAIN view.rows :
              p < q => /\ view.rows[p].Surgeries >= view.rows[q].Surgeries
                       /\ view.rows[p].Surgeries = view.rows[q].Surgeries
                            => StaffPos(view.rows[p].Staff)
                                 < StaffPos(view.rows[q].Staff)

-----------------------------------------------------------------------------
\* the trend of the dashboard has one entry per month from 2025-01 to the
\* month of the run, 0 for a month without surgery, and its counts add up to
\* the number of Surgery rows dated within those months
TrendCoversWindow ==
    LET n == MonthOrdinal(view.asof) + 1
        inWindow == {k \in DOMAIN surgery :
                       MonthOrdinal(surgery[k].date) \in 0..(n - 1)}
    IN  /\ Len(view.trend) = n
        /\ \A j \in 1..n :
              /\ view.trend[j].Month = MonthStr(OrdinalMonth(j - 1))
              /\ (\A k \in DOMAIN surgery :
                     MonthOrdinal(surgery[k].date) # j - 1)
                   => view.trend[j].Total = 0
        /\ SumSeq([j \in DOMAIN view.trend |-> view.trend[j].Total])
             = Cardinality(inWindow)

-----------------------------------------------------------------------------
\* C8: Surgery and Target rows are append-only; a press of "Log Surgery" adds
\* exactly one Surgery row, a press of "Assign Target" exactly one Target
\* row, and Dashboard, Reports and Leaderboard change no table (the seeding
\* of an empty Staff table at the start of the run apart).
C8_AppendOnly ==
    [][ /\ IsPrefix(surgery, surgery')
        /\ IsPrefix(target, target')
        /\ (ScriptRun /\ view'.page = "Log Surgery" /\ view'.pressed) =>
              Len(surgery') = Len(surgery) + 1 /\ target' = target
        /\ (ScriptRun /\ view'.page = "Assign Targets" /\ view'.pressed) =>
              Len(target') = Len(target) + 1 /\ surgery' = surgery
        /\ (ScriptRun /\ view'.page \in ReadOnlyPages) =>
              /\ surgery' = surgery
              /\ target' = target
              /\ staff # <<>> => staff' = staff
      ]_vars

\* C8 witness: rows were added to both tables, then a read-only page shown.
C8_Witness ==
    /\ view.page \in ReadOnlyPages
    /\ Len(surgery) >= 1
    /\ Len(target) >= 1

-----------------------------------------------------------------------------
\* C9: the staff_id of every Surgery row and of every Target row is the id of
\* a Staff row.
C9_ReferentialIntegrity ==
    /\ \A k \in DOMAIN surgery :
          \E i \in DOMAIN staff : staff[i].id = surgery[k].staff_id
    /\ \A k \in DOMAIN target :
          \E i \in DOMAIN staff : staff[i].id = target[k].staff_id

\* C9 witness: logged and generated surgeries and a target exist.
C9_Witness ==
    /\ Len(surgery) > Len(staff)
    /\ Len(target) >= 1

-----------------------------------------------------------------------------
\* the Staff table holds the 14 sample staff, once each, in the order of the
\* list
SampleStaffOnce(st) ==
    /\ Len(st) = 14
    /\ \A i \in DOMAIN st : st[i].id = i /\ st[i].name = SeedNames[i]
    /\ \A i, j \in DOMAIN st : st[i].name = st[j].name => i = j

\* C10: a run seeds the 14 sample staff when the Staff table is empty and
\* leaves a non-empty Staff table as it is, so the sample staff are there
\* once each after any number of runs; seeding changes neither Surgery nor
\* Target.
C10_SeedOnce ==
    /\ [](staff = <<>> \/ SampleStaffOnce(staff))
    /\ [][ /\ (ScriptRun /\ staff = <<>>) => SampleStaffOnce(staff')
           /\ staff # <<>> => staff' = staff
           /\ (staff = <<>> /\ staff' # <<>> /\ view'.page \in ReadOnlyPages)
                => surgery' = surgery /\ target' = target
         ]_vars

\* C10 witness: a second run has found the Staff table seeded.
C10_Witness ==
    /\ SampleStaffOnce(staff)
    /\ Len(surgery) >= 1
    /\ view.page = "Dashboard"

=============================================================================
